---- MODULE Spec2Model ----
(***************************************************************************)
(* Model of the internal transfers ledger: the account and transaction     *)
(* services, the Postgres repositories and the schema they run against.    *)
(*                                                                         *)
(* Decimal values are integers counting quarters of the smallest amount a  *)
(* DECIMAL(20,5) column can hold: StoreUnit = 4 stands for 0.00001, so 2   *)
(* stands for 0.000005.  shopspring decimals in the Go code are exact; a   *)
(* value written to a DECIMAL(20,5) column is rounded by the store.        *)
(***************************************************************************)
EXTENDS Integers, Sequences, FiniteSets, TLC

\* ---------------------------------------------------------------- bounds
MaxCalls == 2

\* ------------------------------------------------------- program constants
\* DECIMAL(20,5): the store keeps 5 fractional digits; one store unit is 4
\* model units, so the model can hand the store values of finer scale.
StoreUnit == 4

AccountIds == {1, 2}
Workers == {1, 2}
InitialBalances == {-4, 0, 4}
Amounts == {-4, 0, 1, 2, 4}

\* ----------------------------------------------------------------- errors
\* internal/errors: the domain errors are sentinel values; every other
\* failure is a fmt.Errorf wrapper (msg) around the driver's error (cause).
Err(name, cause) == [name |-> name, cause |-> cause]
Nil == Err("nil", "none")
ErrInsufficientBalance == Err("InsufficientBalance", "none")
ErrAccountNotFound == Err("AccountNotFound", "none")
ErrSourceAccountNotFound == Err("SourceAccountNotFound", "none")
ErrDestinationAccountNotFound == Err("DestinationAccountNotFound", "none")
ErrAccountAlreadyExists == Err("AccountAlreadyExists", "none")
ErrInvalidAmount == Err("InvalidAmount", "none")
ErrSameAccount == Err("SameAccount", "none")

DomainErrors ==
    {ErrInsufficientBalance, ErrAccountNotFound, ErrSourceAccountNotFound,
     ErrDestinationAccountNotFound, ErrAccountAlreadyExists, ErrInvalidAmount,
     ErrSameAccount}

\* ------------------------------------------------------------------ state
VARIABLES
    accounts,       \* committed rows of table accounts: account_id -> balance
    opening,        \* the balance each account row was inserted with
    transactions,   \* committed rows of table transactions, in insert order
    pc,             \* per worker: position inside CreateTransaction
    req,            \* per worker: the CreateTransactionRequest
    status,         \* per worker: transaction.Status of the in-memory record
    sourceAccount,  \* per worker: <<balance>> once fetched, else <<>>
    destAccount,    \* per worker: <<balance>> once fetched, else <<>>
    snap,           \* per worker: the snapshot of accounts its scope reads
    stale,          \* per worker: rows committed by others since its snapshot
    wr,             \* per worker: uncommitted balance writes (rows it locks)
    ins,            \* per worker: uncommitted transactions row, <<>> or <<r>>
    err,            \* per worker: the error fn returned, awaiting rollback
    result,         \* per worker: what CreateTransaction returned
    ret,            \* what the last standalone call returned
    ncalls          \* CreateTransaction calls made so far

vars ==
    <<accounts, opening, transactions, pc, req, status, sourceAccount, destAccount,
      snap, stale, wr, ins, err, result, ret, ncalls>>

txvars == <<pc, req, status, sourceAccount, destAccount, snap, stale, wr, ins, err, result>>

NoReq == [src |-> 0, dst |-> 0, amount |-> 0]
NoRet == [op |-> "none", id |-> 0, arg |-> 0, err |-> Nil, account |-> <<>>]
Empty == [i \in {} |-> 0]

\* --------------------------------------------------------- pure functions
\* decimal.Decimal.IsNegative
IsNegative(d) == d < 0

\* store: a value assigned to a DECIMAL(20,5) column is rounded to 5
\* fractional digits, ties away from zero.
RoundStore(v) ==
    IF v >= 0 THEN ((2 * v + StoreUnit) \div (2 * StoreUnit)) * StoreUnit
    ELSE 0 - (((2 * (0 - v) + StoreUnit) \div (2 * StoreUnit)) * StoreUnit)

\* CHECK (balance >= 0) and CHECK (amount > 0), on the stored value
CheckBalance(v) == RoundStore(v) >= 0
CheckAmount(v) == RoundStore(v) > 0

\* a balance check that lets every amount through: what the transfer would
\* be without Account.HasSufficientBalance
HasSufficientBalanceAlways(balance, amount) == TRUE

\* Account.HasSufficientBalance
HasSufficientBalance(balance, amount) == balance >= amount

\* a validation that rejects only negative amounts
ValidateNegativeOnly(t) ==
    IF t.amount < 0 THEN ErrInvalidAmount
    ELSE IF t.src = t.dst THEN ErrSameAccount
    ELSE Nil

\* a validation that checks the amount only
ValidateAmountOnly(t) ==
    IF t.amount <= 0 THEN ErrInvalidAmount ELSE Nil

\* a validation that compares the accounts before it looks at the amount
ValidateAccountsFirst(t) ==
    IF t.src = t.dst THEN ErrSameAccount
    ELSE IF t.amount <= 0 THEN ErrInvalidAmount
    ELSE Nil

\* Transaction.Validate
Validate(t) ==
    IF t.amount <= 0 THEN ErrInvalidAmount
    ELSE IF t.src = t.dst THEN ErrSameAccount
    ELSE Nil

Init ==
    /\ accounts = Empty
    /\ opening = Empty
    /\ transactions = <<>>
    /\ pc = [w \in Workers |-> "idle"]
    /\ req = [w \in Workers |-> NoReq]
    /\ status = [w \in Workers |-> "pending"]
    /\ sourceAccount = [w \in Workers |-> <<>>]
    /\ destAccount = [w \in Workers |-> <<>>]
    /\ snap = [w \in Workers |-> Empty]
    /\ stale = [w \in Workers |-> {}]
    /\ wr = [w \in Workers |-> Empty]
    /\ ins = [w \in Workers |-> <<>>]
    /\ err = [w \in Workers |-> Nil]
    /\ result = [w \in Workers |-> Nil]
    /\ ret = NoRet
    /\ ncalls = 0

\* ------------------------------------------------------ standalone calls
\* an INSERT into a table accounts that has no primary key on account_id
InsertAccountOutcomeNoUnique(id, balance) ==
    IF ~CheckBalance(balance) THEN "check_constraint_violation" ELSE "ok"

\* store: INSERT INTO accounts; constraints are checked on the stored value
InsertAccountOutcome(id, balance) ==
    IF ~CheckBalance(balance) THEN "check_constraint_violation"
    ELSE IF id \in DOMAIN accounts THEN "unique_violation"
    ELSE "ok"

\* PostgresAccountRepository.CreateAccount: the switch on pqErr.Code.Name()
CreateAccountError(code) ==
    CASE code = "unique_violation" -> ErrAccountAlreadyExists
      [] code = "check_constraint_violation" -> ErrInvalidAmount
      [] OTHER -> Err("failed to create account", code)

\* PostgresAccountRepository.CreateAccount: the error it returns
RepoCreateAccount(id, initialBalance) ==
    IF IsNegative(initialBalance) THEN ErrInvalidAmount
    ELSE IF InsertAccountOutcome(id, initialBalance) = "ok" THEN Nil
    ELSE CreateAccountError(InsertAccountOutcome(id, initialBalance))

\* an account creation with no sign check in the service, the repository
\* or the schema
CreateAccountUnvalidated(id, initialBalance) ==
    /\ ret = NoRet
    /\ LET e == IF id \in DOMAIN accounts THEN ErrAccountAlreadyExists ELSE Nil
       IN /\ accounts' = IF e = Nil THEN accounts @@ (id :> RoundStore(initialBalance))
                         ELSE accounts
          /\ opening' = IF e = Nil THEN opening @@ (id :> RoundStore(initialBalance))
                        ELSE opening
          /\ ret' = [op |-> "createAccount", id |-> id, arg |-> initialBalance,
                     err |-> e, account |-> <<>>]
    /\ UNCHANGED <<transactions, txvars, ncalls>>

\* accountService.CreateAccount
CreateAccount(id, initialBalance) ==
    /\ ret = NoRet
    /\ LET e == IF IsNegative(initialBalance) THEN ErrInvalidAmount
                ELSE RepoCreateAccount(id, initialBalance)
       IN /\ accounts' = IF e = Nil THEN accounts @@ (id :> RoundStore(initialBalance))
                         ELSE accounts
          /\ opening' = IF e = Nil THEN opening @@ (id :> RoundStore(initialBalance))
                        ELSE opening
          /\ ret' = [op |-> "createAccount", id |-> id, arg |-> initialBalance,
                     err |-> e, account |-> <<>>]
    /\ UNCHANGED <<transactions, txvars, ncalls>>

\* accountService.CreateAccount when the INSERT fails in the driver
CreateAccountFails(id, initialBalance) ==
    /\ ret = NoRet
    /\ ~IsNegative(initialBalance)
    /\ ret' = [op |-> "createAccount", id |-> id, arg |-> initialBalance,
               err |-> Err("failed to create account", "io"), account |-> <<>>]
    /\ UNCHANGED <<accounts, opening, transactions, txvars, ncalls>>

\* a read that answers a missing row with an account of balance 0
GetAccountDefaultsZero(id) ==
    /\ ret = NoRet
    /\ ret' = [op |-> "getAccount", id |-> id, arg |-> 0, err |-> Nil,
               account |-> <<IF id \in DOMAIN accounts THEN accounts[id] ELSE 0>>]
    /\ UNCHANGED <<accounts, opening, transactions, txvars, ncalls>>

\* accountService.GetAccount: a read of the committed rows
GetAccount(id) ==
    /\ ret = NoRet
    /\ ret' = IF id \in DOMAIN accounts
              THEN [op |-> "getAccount", id |-> id, arg |-> 0, err |-> Nil,
                    account |-> <<accounts[id]>>]
              ELSE [op |-> "getAccount", id |-> id, arg |-> 0,
                    err |-> ErrAccountNotFound, account |-> <<>>]
    /\ UNCHANGED <<accounts, opening, transactions, txvars, ncalls>>

\* the caller of a standalone call takes the value it returned
TakeReturn ==
    /\ ret # NoRet
    /\ ret' = NoRet
    /\ UNCHANGED <<accounts, opening, transactions, txvars, ncalls>>

\* ------------------------------------------------- the transaction scope
\* rows of accounts as worker w's scope sees them: its snapshot, with its
\* own writes on top (sql.LevelSerializable: reads never see later commits)
TxView(w) ==
    [id \in DOMAIN snap[w] |-> IF id \in DOMAIN wr[w] THEN wr[w][id] ELSE snap[w][id]]

\* the rows of accounts worker w's scope ever touches
Rows(w) == {req[w].src, req[w].dst}

\* store: the snapshot the scope's first statement takes, kept for the rows
\* the scope touches
Snapshot(w) == [id \in DOMAIN accounts \cap Rows(w) |-> accounts[id]]

\* store: the row is write-locked by another open scope
LockedByOther(w, id) == \E o \in Workers \ {w} : id \in DOMAIN wr[o]

SetRow(f, id, v) == [i \in DOMAIN f \cup {id} |-> IF i = id THEN v ELSE f[i]]

\* a scoped read at READ UNCOMMITTED: it sees the writes other open scopes
\* have not committed
GetAccountWithTxDirty(w, id) ==
    IF \E o \in Workers \ {w} : id \in DOMAIN wr[o]
    THEN <<wr[CHOOSE o \in Workers \ {w} : id \in DOMAIN wr[o]][id]>>
    ELSE IF id \in DOMAIN TxView(w) THEN <<TxView(w)[id]>> ELSE <<>>

\* PostgresAccountRepository.GetAccountWithTx: <<balance>>, or <<>> for
\* sql.ErrNoRows
GetAccountWithTx(w, id) ==
    IF id \in DOMAIN TxView(w) THEN <<TxView(w)[id]>> ELSE <<>>

\* PostgresAccountRepository.UpdateBalanceWithTx: the test of
\* pqErr.Code.Name()
UpdateBalanceError(code) ==
    IF code = "check_constraint_violation" THEN ErrInvalidAmount
    ELSE Err("failed to update balance", code)

\* an update under an isolation level that lets a scope overwrite a row
\* committed by another scope since its snapshot
UpdateBalanceWithTxNoConflict(w, id, newBalance) ==
    IF IsNegative(newBalance) THEN ErrInvalidAmount
    ELSE IF ~CheckBalance(newBalance) THEN ErrInvalidAmount
    ELSE IF id \notin DOMAIN TxView(w) THEN ErrAccountNotFound
    ELSE Nil

\* PostgresAccountRepository.UpdateBalanceWithTx: the error it returns
UpdateBalanceWithTx(w, id, newBalance) ==
    IF IsNegative(newBalance) THEN ErrInvalidAmount
    ELSE IF id \in DOMAIN TxView(w) /\ id \in stale[w]
         THEN UpdateBalanceError("serialization_failure")
    ELSE IF ~CheckBalance(newBalance) THEN UpdateBalanceError("check_constraint_violation")
    ELSE IF id \notin DOMAIN TxView(w) THEN ErrAccountNotFound
    ELSE Nil

\* store: the foreign keys of table transactions
ForeignKeysHold(t) == t.src \in DOMAIN accounts /\ t.dst \in DOMAIN accounts

\* an insert that hands every error of the store on in the generic wrapper
RecordErrorRaw(code) == Err("failed to record transaction", code)

\* PostgresTransactionRepository.CreateTransactionWithTx: the switch on
\* pqErr.Code.Name()
RecordError(code) ==
    CASE code = "foreign_key_violation" -> ErrAccountNotFound
      [] code = "check_constraint_violation" -> ErrInvalidAmount
      [] OTHER -> Err("failed to record transaction", code)

\* a record insert that leaves validation to the schema
CreateTransactionWithTxUnvalidated(w, t) ==
    IF ~CheckAmount(t.amount) THEN RecordError("check_constraint_violation")
    ELSE IF ~ForeignKeysHold(t) THEN RecordError("foreign_key_violation")
    ELSE Nil

\* PostgresTransactionRepository.CreateTransactionWithTx: the error it returns
CreateTransactionWithTx(w, t) ==
    IF Validate(t) # Nil THEN Validate(t)
    ELSE IF ~CheckAmount(t.amount) THEN RecordError("check_constraint_violation")
    ELSE IF ~ForeignKeysHold(t) THEN RecordError("foreign_key_violation")
    ELSE Nil

\* fn returned e: withTransaction goes on to tx.Rollback()
Fail(w, e) ==
    /\ err' = [err EXCEPT ![w] = e]
    /\ pc' = [pc EXCEPT ![w] = "rollback"]
    /\ snap' = [snap EXCEPT ![w] = Empty]
    /\ stale' = [stale EXCEPT ![w] = {}]

\* CreateTransaction returns e; its locals go out of scope
Return(w, e) ==
    /\ result' = [result EXCEPT ![w] = e]
    /\ pc' = [pc EXCEPT ![w] = "done"]
    /\ req' = [req EXCEPT ![w] = NoReq]
    /\ status' = [status EXCEPT ![w] = "pending"]
    /\ sourceAccount' = [sourceAccount EXCEPT ![w] = <<>>]
    /\ destAccount' = [destAccount EXCEPT ![w] = <<>>]

\* transactionService.CreateTransaction is called with a request
CreateTransaction(w, src, dst, amount) ==
    /\ ret = NoRet
    /\ pc[w] \in {"idle", "done"}
    /\ ncalls < MaxCalls
    /\ ncalls' = ncalls + 1
    /\ req' = [req EXCEPT ![w] = [src |-> src, dst |-> dst, amount |-> amount]]
    /\ result' = [result EXCEPT ![w] = Nil]
    /\ pc' = [pc EXCEPT ![w] = "validate"]
    /\ UNCHANGED <<accounts, opening, transactions, status, sourceAccount, destAccount, snap,
                   stale, wr, ins, err, ret>>

\* CreateTransaction: transaction.Validate(), before withTransaction
ValidateRequest(w) ==
    /\ ret = NoRet
    /\ pc[w] = "validate"
    /\ LET e == Validate(req[w])
       IN IF e = Nil
          THEN /\ pc' = [pc EXCEPT ![w] = "begin"]
               /\ UNCHANGED <<req, status, sourceAccount, destAccount, result>>
          ELSE Return(w, e)
    /\ UNCHANGED <<accounts, opening, transactions, snap, stale, wr, ins, err, ret, ncalls>>

\* withTransaction: db.BeginTx with sql.LevelSerializable
BeginTx(w) ==
    /\ ret = NoRet
    /\ pc[w] = "begin"
    /\ pc' = [pc EXCEPT ![w] = "readSrc"]
    /\ UNCHANGED <<accounts, opening, transactions, req, status, sourceAccount, destAccount,
                   snap, stale, wr, ins, err, result, ret, ncalls>>

\* a fetch of the source that passes the repository's AccountNotFound on
\* as it is
ReadSourceUnmapped(w) ==
    /\ ret = NoRet
    /\ pc[w] = "readSrc"
    /\ LET a == IF req[w].src \in DOMAIN accounts THEN <<accounts[req[w].src]>> ELSE <<>>
       IN /\ sourceAccount' = [sourceAccount EXCEPT ![w] = a]
          /\ IF a = <<>> THEN Fail(w, ErrAccountNotFound)
             ELSE IF ~HasSufficientBalance(a[1], req[w].amount)
                  THEN Fail(w, ErrInsufficientBalance)
             ELSE /\ pc' = [pc EXCEPT ![w] = "readDst"]
                  /\ snap' = [snap EXCEPT ![w] = Snapshot(w)]
                  /\ stale' = [stale EXCEPT ![w] = {}]
                  /\ err' = err
    /\ UNCHANGED <<accounts, opening, transactions, req, status, destAccount, wr, ins, result,
                   ret, ncalls>>

\* a fetch of the source that looks the destination up before it checks the
\* balance
ReadSourceDestinationFirst(w) ==
    /\ ret = NoRet
    /\ pc[w] = "readSrc"
    /\ LET a == IF req[w].src \in DOMAIN accounts THEN <<accounts[req[w].src]>> ELSE <<>>
       IN /\ sourceAccount' = [sourceAccount EXCEPT ![w] = a]
          /\ IF a = <<>> THEN Fail(w, ErrSourceAccountNotFound)
             ELSE IF req[w].dst \notin DOMAIN accounts
                  THEN Fail(w, ErrDestinationAccountNotFound)
             ELSE IF ~HasSufficientBalance(a[1], req[w].amount)
                  THEN Fail(w, ErrInsufficientBalance)
             ELSE /\ pc' = [pc EXCEPT ![w] = "readDst"]
                  /\ snap' = [snap EXCEPT ![w] = Snapshot(w)]
                  /\ stale' = [stale EXCEPT ![w] = {}]
                  /\ err' = err
    /\ UNCHANGED <<accounts, opening, transactions, req, status, destAccount, wr, ins, result,
                   ret, ncalls>>

\* fn: fetch the source account, then check its balance
ReadSource(w) ==
    /\ ret = NoRet
    /\ pc[w] = "readSrc"
    /\ LET a == IF req[w].src \in DOMAIN accounts THEN <<accounts[req[w].src]>> ELSE <<>>
       IN /\ sourceAccount' = [sourceAccount EXCEPT ![w] = a]
          /\ IF a = <<>> THEN Fail(w, ErrSourceAccountNotFound)
             ELSE IF ~HasSufficientBalance(a[1], req[w].amount)
                  THEN Fail(w, ErrInsufficientBalance)
             ELSE /\ pc' = [pc EXCEPT ![w] = "readDst"]
                  /\ snap' = [snap EXCEPT ![w] = Snapshot(w)]
                  /\ stale' = [stale EXCEPT ![w] = {}]
                  /\ err' = err
    /\ UNCHANGED <<accounts, opening, transactions, req, status, destAccount, wr, ins, result,
                   ret, ncalls>>

\* a fetch of the destination that passes the repository's AccountNotFound
\* on as it is
ReadDestinationUnmapped(w) ==
    /\ ret = NoRet
    /\ pc[w] = "readDst"
    /\ LET a == GetAccountWithTx(w, req[w].dst)
       IN /\ destAccount' = [destAccount EXCEPT ![w] = a]
          /\ IF a = <<>> THEN Fail(w, ErrAccountNotFound)
             ELSE /\ pc' = [pc EXCEPT ![w] = "updSrc"]
                  /\ UNCHANGED <<snap, stale, err>>
    /\ UNCHANGED <<accounts, opening, transactions, req, status, sourceAccount, wr, ins, result,
                   ret, ncalls>>

\* fn: fetch the destination account
ReadDestination(w) ==
    /\ ret = NoRet
    /\ pc[w] = "readDst"
    /\ LET a == GetAccountWithTx(w, req[w].dst)
       IN /\ destAccount' = [destAccount EXCEPT ![w] = a]
          /\ IF a = <<>> THEN Fail(w, ErrDestinationAccountNotFound)
             ELSE /\ pc' = [pc EXCEPT ![w] = "updSrc"]
                  /\ UNCHANGED <<snap, stale, err>>
    /\ UNCHANGED <<accounts, opening, transactions, req, status, sourceAccount, wr, ins, result,
                   ret, ncalls>>

\* sourceAccount.Balance.Sub(req.Amount), destAccount.Balance.Add(req.Amount)
SourceNewBalance(w) == sourceAccount[w][1] - req[w].amount
DestNewBalance(w) == destAccount[w][1] + req[w].amount

\* an UpdateBalanceWithTx that runs its UPDATE outside the scope: the write
\* is committed as the call returns
UpdateStepAutocommit(w, id, newBalance, next) ==
    /\ IsNegative(newBalance) \/ ~LockedByOther(w, id)
    /\ LET e == UpdateBalanceWithTx(w, id, newBalance)
       IN IF e = Nil
          THEN /\ accounts' = SetRow(accounts, id, RoundStore(newBalance))
               /\ wr' = [wr EXCEPT ![w] = SetRow(wr[w], id, RoundStore(newBalance))]
               /\ pc' = [pc EXCEPT ![w] = next]
               /\ UNCHANGED <<snap, stale, err>>
          ELSE /\ Fail(w, e)
               /\ UNCHANGED <<wr, accounts>>
    /\ UNCHANGED <<opening, transactions, req, status, sourceAccount, destAccount, ins,
                   result, ret, ncalls>>

\* one UpdateBalanceWithTx call of fn; the UPDATE waits while another open
\* scope holds the row
UpdateStep(w, id, newBalance, next) ==
    /\ IsNegative(newBalance) \/ ~LockedByOther(w, id)
    /\ LET e == UpdateBalanceWithTx(w, id, newBalance)
       IN IF e = Nil
          THEN /\ wr' = [wr EXCEPT ![w] = SetRow(wr[w], id, RoundStore(newBalance))]
               /\ pc' = [pc EXCEPT ![w] = next]
               /\ UNCHANGED <<snap, stale, err>>
          ELSE /\ Fail(w, e)
               /\ wr' = wr
    /\ UNCHANGED <<accounts, opening, transactions, req, status, sourceAccount, destAccount, ins,
                   result, ret, ncalls>>

\* an update step that writes the destination balance where the source
\* balance is due
UpdateSourceWritesDestination(w) ==
    /\ ret = NoRet
    /\ pc[w] = "updSrc"
    /\ UpdateStep(w, req[w].dst, DestNewBalance(w), "updDst")

\* fn: update the source balance
UpdateSource(w) ==
    /\ ret = NoRet
    /\ pc[w] = "updSrc"
    /\ UpdateStep(w, req[w].src, SourceNewBalance(w), "updDst")

\* fn: update the destination balance
UpdateDestination(w) ==
    /\ ret = NoRet
    /\ pc[w] = "updDst"
    /\ UpdateStep(w, req[w].dst, DestNewBalance(w), "insert")

\* store: two scopes each wait for a row the other holds; the store breaks
\* the cycle by failing one of the UPDATEs
WaitsFor(w, o) ==
    /\ o # w
    /\ \/ pc[w] = "updSrc" /\ req[w].src \in DOMAIN wr[o]
       \/ pc[w] = "updDst" /\ req[w].dst \in DOMAIN wr[o]

\* a store that never notices the cycle: both UPDATEs wait on
DeadlockUndetected(w) ==
    /\ ret = NoRet
    /\ FALSE
    /\ UNCHANGED vars

Deadlock(w) ==
    /\ ret = NoRet
    /\ \E o \in Workers : WaitsFor(w, o) /\ WaitsFor(o, w)
    /\ Fail(w, Err("failed to update balance", "deadlock_detected"))
    /\ UNCHANGED <<accounts, opening, transactions, req, status, sourceAccount, destAccount, wr,
                   ins, result, ret, ncalls>>

\* a recording of the in-memory transaction as it is, before it is marked
\* complete
RecordTransactionUnpromoted(w) ==
    /\ ret = NoRet
    /\ pc[w] = "insert"
    /\ status' = status
    /\ LET t == [src |-> req[w].src, dst |-> req[w].dst, amount |-> req[w].amount,
                 status |-> status[w]]
           e == CreateTransactionWithTx(w, t)
       IN IF e = Nil
          THEN /\ ins' = [ins EXCEPT ![w] = <<[t EXCEPT !.amount = RoundStore(t.amount)]>>]
               /\ pc' = [pc EXCEPT ![w] = "commit"]
               /\ UNCHANGED <<snap, stale, err>>
          ELSE /\ Fail(w, e)
               /\ ins' = ins
    /\ UNCHANGED <<accounts, opening, transactions, req, sourceAccount, destAccount, wr, result,
                   ret, ncalls>>

\* a recording that runs its INSERT on the connection pool instead of the
\* scope: the row is committed as the call returns
RecordTransactionAutocommit(w) ==
    /\ ret = NoRet
    /\ pc[w] = "insert"
    /\ status' = [status EXCEPT ![w] = "complete"]
    /\ LET t == [src |-> req[w].src, dst |-> req[w].dst, amount |-> req[w].amount,
                 status |-> "complete"]
           e == CreateTransactionWithTx(w, t)
       IN IF e = Nil
          THEN /\ transactions' =
                     transactions \o <<[t EXCEPT !.amount = RoundStore(t.amount)]>>
               /\ pc' = [pc EXCEPT ![w] = "commit"]
               /\ UNCHANGED <<snap, stale, err>>
          ELSE /\ Fail(w, e)
               /\ transactions' = transactions
    /\ UNCHANGED <<accounts, opening, ins, req, sourceAccount, destAccount, wr, result,
                   ret, ncalls>>

\* fn: mark the transaction complete and record it
RecordTransaction(w) ==
    /\ ret = NoRet
    /\ pc[w] = "insert"
    /\ status' = [status EXCEPT ![w] = "complete"]
    /\ LET t == [src |-> req[w].src, dst |-> req[w].dst, amount |-> req[w].amount,
                 status |-> "complete"]
           e == CreateTransactionWithTx(w, t)
       IN IF e = Nil
          THEN /\ ins' = [ins EXCEPT ![w] = <<[t EXCEPT !.amount = RoundStore(t.amount)]>>]
               /\ pc' = [pc EXCEPT ![w] = "commit"]
               /\ UNCHANGED <<snap, stale, err>>
          ELSE /\ Fail(w, e)
               /\ ins' = ins
    /\ UNCHANGED <<accounts, opening, transactions, req, sourceAccount, destAccount, wr, result,
                   ret, ncalls>>

\* a commit that also resets every row the scope did not write
ApplyWritesResetOthers(w) ==
    [id \in DOMAIN accounts |-> IF id \in DOMAIN wr[w] THEN wr[w][id] ELSE 0]

\* store: the scope's writes become the committed rows, all at once
ApplyWrites(w) ==
    [id \in DOMAIN accounts |-> IF id \in DOMAIN wr[w] THEN wr[w][id] ELSE accounts[id]]

\* the scopes that hold a snapshot
HasSnapshot(w) == pc[w] \in {"readDst", "updSrc", "updDst", "insert", "commit"}

\* withTransaction: tx.Commit() after fn returned nil
Commit(w) ==
    /\ ret = NoRet
    /\ pc[w] = "commit"
    /\ accounts' = ApplyWrites(w)
    /\ transactions' = transactions \o ins[w]
    /\ stale' = [o \in Workers |->
                    IF o # w /\ HasSnapshot(o)
                    THEN stale[o] \cup (DOMAIN wr[w] \cap Rows(o)) ELSE {}]
    /\ snap' = [snap EXCEPT ![w] = Empty]
    /\ wr' = [wr EXCEPT ![w] = Empty]
    /\ ins' = [ins EXCEPT ![w] = <<>>]
    /\ Return(w, Nil)
    /\ UNCHANGED <<opening, err, ret, ncalls>>

\* a rollback that leaves the scope's balance writes in the committed rows
RollbackKeepsWrites(w) ==
    /\ ret = NoRet
    /\ pc[w] = "rollback"
    /\ accounts' = ApplyWrites(w)
    /\ wr' = [wr EXCEPT ![w] = Empty]
    /\ ins' = [ins EXCEPT ![w] = <<>>]
    /\ Return(w, err[w])
    /\ err' = [err EXCEPT ![w] = Nil]
    /\ UNCHANGED <<opening, transactions, snap, stale, ret, ncalls>>

\* a rollback after which withTransaction runs fn again in a new scope when
\* the store reported a serialization conflict
RollbackRetries(w) ==
    /\ ret = NoRet
    /\ pc[w] = "rollback"
    /\ wr' = [wr EXCEPT ![w] = Empty]
    /\ ins' = [ins EXCEPT ![w] = <<>>]
    /\ IF err[w].cause = "serialization_failure"
       THEN /\ pc' = [pc EXCEPT ![w] = "begin"]
            /\ sourceAccount' = [sourceAccount EXCEPT ![w] = <<>>]
            /\ destAccount' = [destAccount EXCEPT ![w] = <<>>]
            /\ UNCHANGED <<result, req, status>>
       ELSE Return(w, err[w])
    /\ err' = [err EXCEPT ![w] = Nil]
    /\ UNCHANGED <<accounts, opening, transactions, snap, stale, ret, ncalls>>

\* withTransaction: tx.Rollback() after fn returned an error
Rollback(w) ==
    /\ ret = NoRet
    /\ pc[w] = "rollback"
    /\ wr' = [wr EXCEPT ![w] = Empty]
    /\ ins' = [ins EXCEPT ![w] = <<>>]
    /\ Return(w, err[w])
    /\ err' = [err EXCEPT ![w] = Nil]
    /\ UNCHANGED <<accounts, opening, transactions, snap, stale, ret, ncalls>>

\* the fmt.Errorf wrapper each call site puts around a driver error
WrapAt(p) ==
    CASE p = "begin" -> "error starting transaction"
      [] p \in {"readSrc", "readDst"} -> "failed to get account"
      [] p \in {"updSrc", "updDst"} -> "failed to update balance"
      [] p = "insert" -> "failed to record transaction"
      [] p = "commit" -> "error committing transaction"
      [] OTHER -> "error rolling back transaction"

\* a store call of the scope fails in the driver (connection lost, ...)
StoreFailure(w) ==
    /\ ret = NoRet
    /\ pc[w] \in {"begin", "readSrc", "readDst", "updSrc", "updDst", "insert",
                  "commit", "rollback"}
    /\ IF pc[w] \in {"begin", "commit", "rollback"}
       THEN /\ Return(w, Err(WrapAt(pc[w]),
                            IF pc[w] = "rollback" THEN err[w].name ELSE "io"))
            /\ err' = [err EXCEPT ![w] = Nil]
            /\ snap' = [snap EXCEPT ![w] = Empty]
            /\ stale' = [stale EXCEPT ![w] = {}]
            /\ wr' = [wr EXCEPT ![w] = Empty]
            /\ ins' = [ins EXCEPT ![w] = <<>>]
       ELSE /\ Fail(w, Err(WrapAt(pc[w]), "io"))
            /\ UNCHANGED <<wr, ins, result, req, status, sourceAccount, destAccount>>
    /\ UNCHANGED <<accounts, opening, transactions, ret, ncalls>>

Next ==
    \/ \E id \in AccountIds, b \in InitialBalances : CreateAccount(id, b)
    \/ \E id \in AccountIds, b \in InitialBalances : CreateAccountFails(id, b)
    \/ \E id \in AccountIds : GetAccount(id)
    \/ TakeReturn
    \/ \E w \in Workers, s \in AccountIds, d \in AccountIds, a \in Amounts :
          CreateTransaction(w, s, d, a)
    \/ \E w \in Workers : ValidateRequest(w)
    \/ \E w \in Workers : BeginTx(w)
    \/ \E w \in Workers : ReadSource(w)
    \/ \E w \in Workers : ReadDestination(w)
    \/ \E w \in Workers : UpdateSource(w)
    \/ \E w \in Workers : UpdateDestination(w)
    \/ \E w \in Workers : Deadlock(w)
    \/ \E w \in Workers : RecordTransaction(w)
    \/ \E w \in Workers : Commit(w)
    \/ \E w \in Workers : Rollback(w)
    \/ \E w \in Workers : StoreFailure(w)

Spec == Init /\ [][Next]_vars

\* ================================================================ properties
\* steps of one worker's createTransfer
Committed(w) == pc[w] = "commit" /\ pc'[w] = "done" /\ result'[w] = Nil
ReturnsError(w) == pc[w] # "done" /\ pc'[w] = "done" /\ result'[w] # Nil
InScope(w) ==
    pc[w] \in {"begin", "readSrc", "readDst", "updSrc", "updDst", "insert",
               "commit", "rollback"}
StepOf(w) == pc'[w] # pc[w]

\* errors.Is(e, target): e is target, or wraps target with %w
Is(e, target) ==
    \/ e = target
    \/ e.name = "error rolling back transaction" /\ e.cause = target.name

\* C1: in every reachable state every committed account balance is >= 0,
\* and a standalone getAccount that found the account returned a balance
\* >= 0.
C1_BalancesNonNegative ==
    /\ \A id \in DOMAIN accounts : accounts[id] >= 0
    /\ (ret.op = "getAccount" /\ ret.account # <<>>) => ret.account[1] >= 0

\* C1 case: a transfer of the whole balance has committed, another call has
\* failed, and getAccount returned the drained source at exactly 0.
C1_Witness ==
    /\ Len(transactions) = 1
    /\ ret.op = "getAccount"
    /\ ret.id = transactions[1].src
    /\ ret.account = <<0>>
    /\ \E w \in Workers : pc[w] = "done" /\ result[w] = ErrInsufficientBalance

\* C2: a committed transfer of amount a from S to D leaves S at its balance
\* before the commit minus a, D at its balance before plus a, and the sum of
\* the two unchanged.
C2_CommitMovesAmount ==
    [][\A w \in Workers :
          Committed(w) =>
             LET S == req[w].src
                 D == req[w].dst
                 a == req[w].amount
             IN /\ accounts'[S] = accounts[S] - a
                /\ accounts'[D] = accounts[D] + a
                /\ accounts'[S] + accounts'[D] = accounts[S] + accounts[D]]_vars

\* C3: a createTransfer that returns an error after its scope was opened
\* has changed no committed balance and persisted no record: every step of
\* the call inside its scope other than the successful commit leaves the
\* committed rows of both tables as they were, and the step that returns the
\* error discards the scope's uncommitted writes.
C3_FailureChangesNothing ==
    [][\A w \in Workers :
          /\ (InScope(w) /\ StepOf(w) /\ ~Committed(w)) =>
                (accounts' = accounts /\ transactions' = transactions)
          /\ (InScope(w) /\ ReturnsError(w)) =>
                (wr'[w] = Empty /\ ins'[w] = <<>>)]_vars

\* C3 case: a call returned the error of a failed recordTransfer, after both
\* balance updates of its scope had been made.
C3_Witness ==
    \E w \in Workers :
       /\ pc[w] = "done"
       /\ result[w].name = "failed to record transaction"
       /\ accounts # Empty

\* C4: no partial mutation is observable outside a scope.  The committed rows
\* change only by an account creation or by a commit that applies both
\* balance writes and the record in one step; a standalone getAccount
\* returns the committed balance; a scoped read returns the committed
\* balance, or the one of its snapshot when the row was committed anew since,
\* never another scope's uncommitted write.
C4_NoPartialMutation ==
    [][/\ (accounts' # accounts \/ transactions' # transactions) =>
             \/ ret'.op = "createAccount" /\ ret = NoRet /\ transactions' = transactions
             \/ \E w \in Workers :
                   /\ Committed(w)
                   /\ DOMAIN wr[w] = {req[w].src, req[w].dst}
                   /\ accounts' = ApplyWrites(w)
                   /\ transactions' = transactions \o ins[w]
                   /\ Len(ins[w]) = 1
       /\ (ret = NoRet /\ ret'.op = "getAccount" /\ ret'.account # <<>>) =>
             ret'.account = <<accounts[ret'.id]>>
       /\ \A w \in Workers :
             /\ (pc[w] = "readSrc" /\ pc'[w] = "readDst") =>
                   sourceAccount'[w] = <<accounts[req[w].src]>>
             /\ (pc[w] = "readDst" /\ pc'[w] = "updSrc") =>
                   destAccount'[w] =
                      <<IF req[w].dst \in stale[w] THEN snap[w][req[w].dst]
                        ELSE accounts[req[w].dst]>>]_vars

\* C4 case: a scope holds an uncommitted write of a row that differs from
\* the committed balance, and a standalone getAccount has returned that row.
C4_Witness ==
    \E w \in Workers :
       /\ ret.op = "getAccount"
       /\ ret.id \in DOMAIN wr[w]
       /\ wr[w][ret.id] # accounts[ret.id]
       /\ ret.account = <<accounts[ret.id]>>

\* sum of the amounts of the records in ts[1..n] selected by field f = id
RECURSIVE SumWhere(_, _, _, _)
SumWhere(ts, n, f, id) ==
    IF n = 0 THEN 0
    ELSE SumWhere(ts, n - 1, f, id) + (IF ts[n][f] = id THEN ts[n].amount ELSE 0)

\* C5: the committed balance of every account equals its initial balance
\* plus the amounts of all committed transfers into it minus the amounts of
\* all committed transfers out of it.
C5_BalanceIsLedgerSum ==
    \A id \in DOMAIN accounts :
       accounts[id] = opening[id]
                      + SumWhere(transactions, Len(transactions), "dst", id)
                      - SumWhere(transactions, Len(transactions), "src", id)

\* ------------------------------------------- two overdrawing transfers
\* account 1 holds 12 (three store units); each worker makes one transfer
\* out of account 1, worker w to account w + 1; every amount is covered by
\* the balance alone, no two amounts are covered together.
OverdrawAmounts == {2 * StoreUnit, 3 * StoreUnit}

InitOverdraw ==
    /\ accounts = (1 :> 3 * StoreUnit) @@ (2 :> 0) @@ (3 :> 0)
    /\ opening = accounts
    /\ transactions = <<>>
    /\ pc = [w \in Workers |-> "idle"]
    /\ req = [w \in Workers |-> NoReq]
    /\ status = [w \in Workers |-> "pending"]
    /\ sourceAccount = [w \in Workers |-> <<>>]
    /\ destAccount = [w \in Workers |-> <<>>]
    /\ snap = [w \in Workers |-> Empty]
    /\ stale = [w \in Workers |-> {}]
    /\ wr = [w \in Workers |-> Empty]
    /\ ins = [w \in Workers |-> <<>>]
    /\ err = [w \in Workers |-> Nil]
    /\ result = [w \in Workers |-> Nil]
    /\ ret = NoRet
    /\ ncalls = 0

OverdrawTransfer(w, amount) ==
    /\ pc[w] = "idle"
    /\ CreateTransaction(w, 1, w + 1, amount)

NextOverdraw ==
    \/ \E w \in Workers, a \in OverdrawAmounts : OverdrawTransfer(w, a)
    \/ \E w \in Workers : ValidateRequest(w)
    \/ \E w \in Workers : BeginTx(w)
    \/ \E w \in Workers : ReadSource(w)
    \/ \E w \in Workers : ReadDestination(w)
    \/ \E w \in Workers : UpdateSource(w)
    \/ \E w \in Workers : UpdateDestination(w)
    \/ \E w \in Workers : RecordTransaction(w)
    \/ \E w \in Workers : Commit(w)
    \/ \E w \in Workers : Rollback(w)

SpecOverdraw == InitOverdraw /\ [][NextOverdraw]_vars

\* C6: of two concurrent transfers out of the same source to two different
\* destinations, each covered by the balance alone but not both together,
\* exactly one commits in every interleaving; the source ends at its initial
\* balance minus the one committed amount, and is never negative.
C6_ExactlyOneCommits ==
    /\ accounts[1] >= 0
    /\ (\A w \in Workers : pc[w] = "done") =>
          /\ Cardinality({w \in Workers : result[w] = Nil}) = 1
          /\ Len(transactions) = 1
          /\ transactions[1].amount \in OverdrawAmounts
          /\ accounts[1] = opening[1] - transactions[1].amount
          /\ accounts[transactions[1].dst] = transactions[1].amount

\* C6 case: both calls ran inside open scopes at once; one committed and
\* the other was aborted by the store on its update of the source row.
C6_Witness ==
    /\ \A w \in Workers : pc[w] = "done"
    /\ \E w \in Workers : result[w].cause = "serialization_failure"
    /\ \E w \in Workers : result[w] = Nil

\* C7: a createTransfer aborted because the store reported a serialization
\* conflict returns the distinct error ConflictRetryable.
C7_ConflictIsRetryable ==
    \A w \in Workers :
       (pc[w] = "done" /\ result[w].cause = "serialization_failure") =>
          result[w].name = "ConflictRetryable"

\* C8: a createTransfer with amount > 0, distinct ids, both accounts found
\* and balance(source) >= amount fails only by a conflict or a storage
\* failure; when it commits, the source balance has decreased by amount, the
\* destination balance has increased by amount, and the one record it
\* persists carries that source, destination and amount with status
\* complete.
C8_ValidTransferCommits ==
    [][\A w \in Workers :
          /\ (/\ pc[w] = "rollback"
              /\ pc'[w] = "done"
              /\ sourceAccount[w] # <<>>
              /\ destAccount[w] # <<>>
              /\ HasSufficientBalance(sourceAccount[w][1], req[w].amount)) =>
                err[w].cause \in {"io", "serialization_failure", "deadlock_detected"}
          /\ Committed(w) =>
                /\ accounts'[req[w].src] = accounts[req[w].src] - req[w].amount
                /\ accounts'[req[w].dst] = accounts[req[w].dst] + req[w].amount
                /\ transactions' =
                      Append(transactions,
                             [src |-> req[w].src, dst |-> req[w].dst,
                              amount |-> req[w].amount, status |-> "complete"])]_vars

\* C9: a createTransfer with amount > 0 and distinct ids whose source exists
\* with balance(source) < amount fails with InsufficientBalance: the step
\* that reads the source ends fn with that error before any write, the call
\* then returns it, and neither step changes a committed balance or record.
C9_InsufficientBalance ==
    [][\A w \in Workers :
          /\ (/\ pc[w] = "readSrc"
              /\ StepOf(w)
              /\ sourceAccount'[w] # <<>>
              /\ sourceAccount'[w][1] < req[w].amount) =>
                /\ pc'[w] = "rollback"
                /\ err'[w] = ErrInsufficientBalance
                /\ wr'[w] = Empty
                /\ ins'[w] = <<>>
                /\ accounts' = accounts
                /\ transactions' = transactions
          /\ (/\ pc[w] = "rollback"
              /\ pc'[w] = "done"
              /\ err[w] = ErrInsufficientBalance) =>
                /\ Is(result'[w], ErrInsufficientBalance)
                /\ accounts' = accounts
                /\ transactions' = transactions]_vars

\* C9 case: a call on an existing source found the balance too small and
\* returned InsufficientBalance with nothing persisted.
C9_Witness ==
    \E w \in Workers :
       /\ pc[w] = "done"
       /\ result[w] = ErrInsufficientBalance
       /\ transactions = <<>>
       /\ \E id \in DOMAIN accounts : accounts[id] > 0

\* C10: a createTransfer with amount = 0 or amount < 0 returns InvalidAmount
\* for every pair of ids, from the validation step itself: no scope is
\* opened, no account is read and no state of the store or of a scope
\* changes.
C10_InvalidAmount ==
    [][\A w \in Workers :
          (pc[w] = "validate" /\ StepOf(w) /\ req[w].amount <= 0) =>
             /\ pc'[w] = "done"
             /\ result'[w] = ErrInvalidAmount
             /\ UNCHANGED <<accounts, transactions, sourceAccount, destAccount,
                            snap, stale, wr, ins, err>>]_vars

\* C10 case: a call between ids of which no account exists has returned
\* InvalidAmount, and a call of amount 0 from an id to itself is at its
\* validation step.
C10_Witness ==
    /\ accounts = Empty
    /\ pc[1] = "done"
    /\ result[1] = ErrInvalidAmount
    /\ pc[2] = "validate"
    /\ req[2].amount = 0
    /\ req[2].src = req[2].dst

\* the store call of the step did not fail in the driver
NoDriverFailure(w) == err'[w].cause # "io"

\* C11: a createTransfer with a positive amount and sourceId = destinationId
\* returns SameAccount from the validation step itself, whether or not the
\* account exists or has funds: no scope is opened and no account is
\* fetched.
C11_SameAccount ==
    [][\A w \in Workers :
          (/\ pc[w] = "validate"
           /\ StepOf(w)
           /\ req[w].amount > 0
           /\ req[w].src = req[w].dst) =>
             /\ pc'[w] = "done"
             /\ result'[w] = ErrSameAccount
             /\ UNCHANGED <<accounts, transactions, sourceAccount, destAccount,
                            snap, stale, wr, ins, err>>]_vars

\* C11 case: a call from an id to itself has returned SameAccount, and one
\* naming an existing, funded account is at its validation step.
C11_Witness ==
    /\ pc[1] = "done"
    /\ result[1] = ErrSameAccount
    /\ pc[2] = "validate"
    /\ req[2].src = req[2].dst
    /\ req[2].amount > 0
    /\ req[2].src \in DOMAIN accounts
    /\ accounts[req[2].src] >= req[2].amount

\* C12: a valid createTransfer whose source exists with sufficient balance
\* and whose destination does not exist fails with
\* DestinationAccountNotFound: the fetch of the destination ends fn with
\* that error before any write, the call returns it, and no committed
\* balance or record changes.
C12_DestinationNotFound ==
    [][\A w \in Workers :
          /\ (/\ pc[w] = "readDst"
              /\ StepOf(w)
              /\ NoDriverFailure(w)
              /\ req[w].dst \notin DOMAIN accounts) =>
                /\ pc'[w] = "rollback"
                /\ err'[w] = ErrDestinationAccountNotFound
                /\ wr'[w] = Empty
                /\ ins'[w] = <<>>
                /\ accounts' = accounts
                /\ transactions' = transactions
          /\ (/\ pc[w] = "rollback"
              /\ pc'[w] = "done"
              /\ err[w] = ErrDestinationAccountNotFound) =>
                /\ Is(result'[w], ErrDestinationAccountNotFound)
                /\ accounts' = accounts
                /\ transactions' = transactions]_vars

\* C12 case: a call returned DestinationAccountNotFound while a funded
\* account exists and nothing was recorded.
C12_Witness ==
    \E w \in Workers :
       /\ pc[w] = "done"
       /\ result[w] = ErrDestinationAccountNotFound
       /\ transactions = <<>>
       /\ \E id \in DOMAIN accounts : accounts[id] > 0

\* C13: a valid createTransfer whose source does not exist fails with
\* SourceAccountNotFound, not AccountNotFound, whether or not the
\* destination exists; no committed balance or record changes.
C13_SourceNotFound ==
    [][\A w \in Workers :
          /\ (/\ pc[w] = "readSrc"
              /\ StepOf(w)
              /\ NoDriverFailure(w)
              /\ req[w].src \notin DOMAIN accounts) =>
                /\ pc'[w] = "rollback"
                /\ err'[w] = ErrSourceAccountNotFound
                /\ wr'[w] = Empty
                /\ ins'[w] = <<>>
                /\ accounts' = accounts
                /\ transactions' = transactions
          /\ (/\ pc[w] = "rollback"
              /\ pc'[w] = "done"
              /\ err[w] = ErrSourceAccountNotFound) =>
                /\ Is(result'[w], ErrSourceAccountNotFound)
                /\ accounts' = accounts
                /\ transactions' = transactions]_vars

\* C13 case: the fetch of a missing source has failed a call whose
\* destination exists.
C13_Witness ==
    \E w \in Workers :
       /\ pc[w] = "rollback"
       /\ err[w] = ErrSourceAccountNotFound
       /\ req[w].src \notin DOMAIN accounts
       /\ req[w].dst \in DOMAIN accounts

\* a standalone call of operation op returns in this step
Returns(op) == ret = NoRet /\ ret'.op = op

\* C14 (as stated): a createAccount whose id already exists returns
\* AccountAlreadyExists for every initial balance passed, and changes no
\* balance.
C14_AlwaysAlreadyExists ==
    [][(/\ Returns("createAccount")
        /\ ret'.id \in DOMAIN accounts
        /\ ret'.err.cause # "io") =>
          /\ ret'.err = ErrAccountAlreadyExists
          /\ accounts' = accounts]_vars

\* C14 (amended): a createAccount whose id already exists never changes the
\* existing balance or any other state of the ledger; it returns
\* AccountAlreadyExists for every initial balance >= 0 and InvalidAmount for
\* every initial balance < 0, which is rejected before the store is asked.
C14_ExistingIdRejected ==
    [][(Returns("createAccount") /\ ret'.id \in DOMAIN accounts) =>
          /\ accounts' = accounts
          /\ transactions' = transactions
          /\ UNCHANGED txvars
          /\ ret'.err # Nil
          /\ (ret'.arg >= 0 /\ ret'.err.cause # "io") =>
                ret'.err = ErrAccountAlreadyExists
          /\ ret'.arg < 0 => ret'.err = ErrInvalidAmount]_vars

\* C14 case: a createAccount on an existing id, passing a balance other than
\* the one the account holds, has returned AccountAlreadyExists.
C14_Witness ==
    /\ ret.op = "createAccount"
    /\ ret.err = ErrAccountAlreadyExists
    /\ ret.id \in DOMAIN accounts
    /\ ret.arg # accounts[ret.id]

\* ------------------------------------------------- account calls alone
\* createAccount and getAccount with initial balances of every scale: whole
\* store units, and values with more fractional digits than the store keeps.
FineBalances == {0 - StoreUnit, -1, 0, 1, 2, StoreUnit, StoreUnit + 2}

NextAccounts ==
    \/ \E id \in AccountIds, b \in FineBalances : CreateAccount(id, b)
    \/ \E id \in AccountIds, b \in FineBalances : CreateAccountFails(id, b)
    \/ \E id \in AccountIds : GetAccount(id)
    \/ TakeReturn

SpecAccounts == Init /\ [][NextAccounts]_vars

\* C15: createAccount(id, b) with an unused id and b >= 0 succeeds and
\* leaves the account with exactly balance b, which a following getAccount
\* returns; with b < 0 it returns InvalidAmount and creates no account.
C15_CreateStoresBalance ==
    [][/\ (/\ Returns("createAccount")
           /\ ret'.id \notin DOMAIN accounts
           /\ ret'.arg >= 0
           /\ ret'.err.cause # "io") =>
             /\ ret'.err = Nil
             /\ ret'.id \in DOMAIN accounts'
             /\ accounts'[ret'.id] = ret'.arg
       /\ (Returns("createAccount") /\ ret'.arg < 0) =>
             /\ ret'.err = ErrInvalidAmount
             /\ accounts' = accounts]_vars

RepoIds == {1, 2, 3}
RecordInputs ==
    [src : RepoIds, dst : RepoIds, amount : Amounts, status : {"pending", "complete"}]

InitRepository ==
    /\ accounts = (1 :> StoreUnit) @@ (2 :> 0)
    /\ opening = accounts
    /\ transactions = <<>>
    /\ pc = [w \in Workers |-> "idle"]
    /\ req = [w \in Workers |-> NoReq]
    /\ status = [w \in Workers |-> "pending"]
    /\ sourceAccount = [w \in Workers |-> <<>>]
    /\ destAccount = [w \in Workers |-> <<>>]
    /\ snap = [w \in Workers |-> Empty]
    /\ stale = [w \in Workers |-> {}]
    /\ wr = [w \in Workers |-> Empty]
    /\ ins = [w \in Workers |-> <<>>]
    /\ err = [w \in Workers |-> Nil]
    /\ result = [w \in Workers |-> Nil]
    /\ ret = NoRet
    /\ ncalls = 0

\* db.BeginTx by the caller
OpenScope(w) ==
    /\ ret = NoRet
    /\ \A o \in Workers : pc[o] = "idle"
    /\ pc' = [pc EXCEPT ![w] = "open"]
    /\ snap' = [snap EXCEPT ![w] = accounts]
    /\ err' = [err EXCEPT ![w] = Nil]
    /\ UNCHANGED <<accounts, opening, transactions, req, status, sourceAccount, destAccount,
                   stale, wr, ins, result, ret, ncalls>>

\* a call of UpdateBalanceWithTx in the open scope; err[w] is what it returned
ScopedUpdateBalance(w, id, newBalance) ==
    /\ ret = NoRet
    /\ pc[w] = "open"
    /\ ncalls < MaxCalls
    /\ ncalls' = ncalls + 1
    /\ LET e == UpdateBalanceWithTx(w, id, newBalance)
       IN /\ err' = [err EXCEPT ![w] = e]
          /\ wr' = IF e = Nil
                   THEN [wr EXCEPT ![w] = SetRow(wr[w], id, RoundStore(newBalance))]
                   ELSE wr
    /\ UNCHANGED <<accounts, opening, transactions, pc, req, status, sourceAccount,
                   destAccount, snap, stale, ins, result, ret>>

\* the INSERT of a record that passed Validate is refused by the store, which
\* leaves the scope aborted
StoreRefusesRecord(t) ==
    Validate(t) = Nil /\ (~CheckAmount(t.amount) \/ ~ForeignKeysHold(t))

\* a call of CreateTransactionWithTx in the open scope
ScopedRecord(w, t) ==
    /\ ret = NoRet
    /\ pc[w] = "open"
    /\ ncalls < MaxCalls
    /\ ncalls' = ncalls + 1
    /\ LET e == CreateTransactionWithTx(w, t)
       IN /\ err' = [err EXCEPT ![w] = e]
          /\ ins' = IF e = Nil
                    THEN [ins EXCEPT ![w] =
                             Append(ins[w], [t EXCEPT !.amount = RoundStore(t.amount)])]
                    ELSE ins
    /\ pc' = [pc EXCEPT ![w] = IF StoreRefusesRecord(t) THEN "aborted" ELSE "open"]
    /\ UNCHANGED <<accounts, opening, transactions, req, status, sourceAccount, destAccount,
                   snap, stale, wr, result, ret>>

\* tx.Commit by the caller; an aborted scope commits nothing
CommitScope(w) ==
    /\ ret = NoRet
    /\ pc[w] \in {"open", "aborted"}
    /\ accounts' = IF pc[w] = "open" THEN ApplyWrites(w) ELSE accounts
    /\ transactions' = IF pc[w] = "open" THEN transactions \o ins[w] ELSE transactions
    /\ pc' = [pc EXCEPT ![w] = "idle"]
    /\ snap' = [snap EXCEPT ![w] = Empty]
    /\ wr' = [wr EXCEPT ![w] = Empty]
    /\ ins' = [ins EXCEPT ![w] = <<>>]
    /\ UNCHANGED <<opening, req, status, sourceAccount, destAccount, stale, err, result, ret,
                   ncalls>>

\* tx.Rollback by the caller
RollbackScope(w) ==
    /\ ret = NoRet
    /\ pc[w] \in {"open", "aborted"}
    /\ pc' = [pc EXCEPT ![w] = "idle"]
    /\ snap' = [snap EXCEPT ![w] = Empty]
    /\ wr' = [wr EXCEPT ![w] = Empty]
    /\ ins' = [ins EXCEPT ![w] = <<>>]
    /\ UNCHANGED <<accounts, opening, transactions, req, status, sourceAccount, destAccount,
                   stale, err, result, ret, ncalls>>

NextRepository ==
    \/ \E w \in Workers : OpenScope(w)
    \/ \E w \in Workers, id \in RepoIds, b \in FineBalances : ScopedUpdateBalance(w, id, b)
    \/ \E w \in Workers, t \in RecordInputs : ScopedRecord(w, t)
    \/ \E w \in Workers : CommitScope(w)
    \/ \E w \in Workers : RollbackScope(w)
    \/ \E id \in RepoIds : GetAccount(id)
    \/ TakeReturn

SpecRepository == InitRepository /\ [][NextRepository]_vars

\* C17: updateBalance(scope, id, newBalance) returns InvalidAmount when
\* newBalance < 0 and AccountNotFound when no account has that id, changing
\* no balance in either case; otherwise it sets the balance of that account
\* to exactly newBalance, which is the committed balance once the scope
\* commits.
C17_UpdateBalance ==
    [][\A w \in Workers :
          /\ \A id \in RepoIds, b \in FineBalances :
                ScopedUpdateBalance(w, id, b) =>
                   /\ accounts' = accounts
                   /\ b < 0 => (err'[w] = ErrInvalidAmount /\ wr' = wr)
                   /\ (b >= 0 /\ id \notin DOMAIN accounts) =>
                         (err'[w] = ErrAccountNotFound /\ wr' = wr)
                   /\ (b >= 0 /\ id \in DOMAIN accounts) =>
                         (err'[w] = Nil /\ wr'[w][id] = b)
          /\ (CommitScope(w) /\ pc[w] = "open") =>
                \A id \in DOMAIN wr[w] : accounts'[id] = wr[w][id]]_vars

\* C18: every persisted transaction record has amount > 0 and source other
\* than destination, whatever records callers hand to recordTransfer: a
\* record with amount <= 0 is answered with InvalidAmount, one with a
\* positive amount and source = destination with SameAccount, and neither
\* is inserted.
C18_RecordsAreValid ==
    [][/\ \A i \in 1..Len(transactions') :
             transactions'[i].amount > 0 /\ transactions'[i].src # transactions'[i].dst
       /\ \A w \in Workers, t \in RecordInputs :
             ScopedRecord(w, t) =>
                /\ transactions' = transactions
                /\ t.amount <= 0 => (err'[w] = ErrInvalidAmount /\ ins' = ins)
                /\ (t.amount > 0 /\ t.src = t.dst) =>
                      (err'[w] = ErrSameAccount /\ ins' = ins)
                /\ \A i \in 1..Len(ins'[w]) :
                      ins'[w][i].amount > 0 /\ ins'[w][i].src # ins'[w][i].dst]_vars

\* C18 case: a record handed to recordTransfer directly has been committed,
\* and a later call with source = destination was answered with SameAccount
\* in a scope that is still open.
C18_Witness ==
    /\ Len(transactions) = 1
    /\ \E w \in Workers : pc[w] = "open" /\ err[w] = ErrSameAccount /\ ins[w] = <<>>

InScopedCall(w) == pc[w] \in {"readSrc", "readDst", "updSrc", "updDst", "insert"}

\* the scope of worker w is open: fn runs, or withTransaction is about to
\* commit or roll back
ScopeOpen(w) ==
    pc[w] \in {"readSrc", "readDst", "updSrc", "updDst", "insert", "commit", "rollback"}

\* C20: getAccountForUpdate, updateBalance and recordTransfer never commit
\* or roll back the scope: when one of them returns, with or without an
\* error, the scope is still open, the committed rows are as before, and
\* every earlier write of the scope is still pending; pending writes leave
\* the scope only in the coordinator's commit or rollback.
C20_ScopedCallsKeepScope ==
    [][\A w \in Workers :
          /\ (InScopedCall(w) /\ StepOf(w)) =>
                /\ ScopeOpen(w)'
                /\ accounts' = accounts
                /\ transactions' = transactions
                /\ \A id \in DOMAIN wr[w] :
                      id \in DOMAIN wr'[w] /\ wr'[w][id] = wr[w][id]
                /\ \A i \in 1..Len(ins[w]) :
                      i <= Len(ins'[w]) /\ ins'[w][i] = ins[w][i]
          /\ (\E id \in DOMAIN wr[w] : id \notin DOMAIN wr'[w]) =>
                pc[w] \in {"commit", "rollback"}
          /\ Len(ins'[w]) < Len(ins[w]) => pc[w] \in {"commit", "rollback"}]_vars

\* C20 case: a scoped call has returned an error after the scope wrote a
\* balance; the scope is still open and its write differs from the
\* committed row.
C20_Witness ==
    \E w \in Workers :
       /\ pc[w] = "rollback"
       /\ err[w] # Nil
       /\ \E id \in DOMAIN wr[w] : wr[w][id] # accounts[id]

\* ------------------------------------------- transfers under a deadline
\* Every store call of a createTransfer takes the caller's ctx.  Once ctx is
\* done, database/sql rolls the scope back and the next call on it (BeginTx,
\* a query, an exec, Commit) returns the context's error instead of running.
\* Accounts 1 and 2 exist with balances StoreUnit and 0.

\* a context expiry that lets a commit already on its way reach the store
\* before the error is returned
ContextDoneAfterCommit(w) ==
    /\ ret = NoRet
    /\ pc[w] \in {"begin", "readSrc", "readDst", "updSrc", "updDst", "insert", "commit"}
    /\ IF pc[w] \in {"begin", "commit"}
       THEN /\ Return(w, Err(WrapAt(pc[w]), "deadline"))
            /\ accounts' = ApplyWrites(w)
            /\ transactions' = transactions \o ins[w]
            /\ snap' = [snap EXCEPT ![w] = Empty]
            /\ stale' = [stale EXCEPT ![w] = {}]
            /\ wr' = [wr EXCEPT ![w] = Empty]
            /\ ins' = [ins EXCEPT ![w] = <<>>]
            /\ err' = err
       ELSE /\ Fail(w, Err(WrapAt(pc[w]), "deadline"))
            /\ UNCHANGED <<accounts, transactions, wr, ins, result, req, status,
                           sourceAccount, destAccount>>
    /\ UNCHANGED <<opening, ret, ncalls>>

\* ctx is done when worker w makes its next store call
ContextDone(w) ==
    /\ ret = NoRet
    /\ pc[w] \in {"begin", "readSrc", "readDst", "updSrc", "updDst", "insert", "commit"}
    /\ IF pc[w] \in {"begin", "commit"}
       THEN /\ Return(w, Err(WrapAt(pc[w]), "deadline"))
            /\ snap' = [snap EXCEPT ![w] = Empty]
            /\ stale' = [stale EXCEPT ![w] = {}]
            /\ wr' = [wr EXCEPT ![w] = Empty]
            /\ ins' = [ins EXCEPT ![w] = <<>>]
            /\ err' = err
       ELSE /\ Fail(w, Err(WrapAt(pc[w]), "deadline"))
            /\ UNCHANGED <<wr, ins, result, req, status, sourceAccount, destAccount>>
    /\ UNCHANGED <<accounts, opening, transactions, ret, ncalls>>

\* withTransaction: tx.Rollback() on a scope database/sql has already rolled
\* back returns sql.ErrTxDone; the error returned wraps fn's error with %w
RollbackAfterDone(w) ==
    /\ ret = NoRet
    /\ pc[w] = "rollback"
    /\ err[w].cause = "deadline"
    /\ wr' = [wr EXCEPT ![w] = Empty]
    /\ ins' = [ins EXCEPT ![w] = <<>>]
    /\ Return(w, Err("error rolling back transaction", "deadline"))
    /\ err' = [err EXCEPT ![w] = Nil]
    /\ UNCHANGED <<accounts, opening, transactions, snap, stale, ret, ncalls>>

NextDeadline ==
    \/ \E w \in Workers, s \in AccountIds, d \in AccountIds, a \in {StoreUnit, 2 * StoreUnit} :
          CreateTransaction(w, s, d, a)
    \/ \E w \in Workers : ValidateRequest(w)
    \/ \E w \in Workers : BeginTx(w)
    \/ \E w \in Workers : ReadSource(w)
    \/ \E w \in Workers : ReadDestination(w)
    \/ \E w \in Workers : UpdateSource(w)
    \/ \E w \in Workers : UpdateDestination(w)
    \/ \E w \in Workers : RecordTransaction(w)
    \/ \E w \in Workers : Commit(w)
    \/ \E w \in Workers : Rollback(w)
    \/ \E w \in Workers : ContextDone(w)
    \/ \E w \in Workers : RollbackAfterDone(w)

SpecDeadline == InitRepository /\ [][NextDeadline]_vars

\* C21: if the caller's deadline expires or its context is cancelled while
\* the scope of a createTransfer is open, the scope is rolled back, the call
\* returns an error that carries the context's error, and no balance change
\* or transaction record of the call is persisted.
C21_DeadlineRollsBack ==
    [][\A w \in Workers :
          /\ ContextDone(w) =>
                /\ accounts' = accounts
                /\ transactions' = transactions
                /\ pc'[w] \in {"rollback", "done"}
                /\ pc'[w] = "rollback" => err'[w].cause = "deadline"
                /\ pc'[w] = "done" =>
                      /\ result'[w] # Nil
                      /\ result'[w].cause = "deadline"
                      /\ wr'[w] = Empty
                      /\ ins'[w] = <<>>
          /\ (pc[w] = "rollback" /\ err[w].cause = "deadline" /\ StepOf(w)) =>
                /\ pc'[w] = "done"
                /\ result'[w].cause = "deadline"
                /\ wr'[w] = Empty
                /\ ins'[w] = <<>>
                /\ accounts' = accounts
                /\ transactions' = transactions]_vars

\* C21 case: a call whose context was done when it came to commit, with
\* both balance writes and the record pending, has returned the error and
\* the committed rows are those of before the call.
C21_Witness ==
    \E w \in Workers :
       /\ pc[w] = "done"
       /\ result[w] = Err("error committing transaction", "deadline")
       /\ accounts = opening
       /\ transactions = <<>>

C23_StorageFailureIsOpaque ==
    \A w \in Workers :
       (pc[w] = "done" /\ result[w].cause \in {"io", "serialization_failure", "deadlock_detected"}) =>
          result[w].name = "StorageFailure"

\* position of a step in CreateTransaction
Rank(p) ==
    CASE p = "validate" -> 1
      [] p = "begin" -> 2
      [] p = "readSrc" -> 3
      [] p = "readDst" -> 4
      [] p = "updSrc" -> 5
      [] p = "updDst" -> 6
      [] p = "insert" -> 7
      [] p = "commit" -> 8
      [] p = "rollback" -> 9
      [] p = "done" -> 10
      [] OTHER -> 0

\* C24: the coordinator does not retry: inside one createTransfer call every
\* step moves the call forward, so the scope is opened at most once and each
\* read, update, insert and commit runs at most once; after a failure,
\* a serialization conflict included, the rollback is followed by the
\* return to the caller, and only a new call by the caller starts again.
C24_NoRetry ==
    [][\A w \in Workers :
          StepOf(w) =>
             /\ pc[w] \notin {"idle", "done"} => Rank(pc'[w]) > Rank(pc[w])
             /\ pc[w] \in {"idle", "done"} =>
                   (pc'[w] = "validate" /\ ncalls' = ncalls + 1)
             /\ pc[w] \in {"rollback", "commit"} => pc'[w] = "done"]_vars

\* C24 case: a call whose update met a serialization conflict has returned
\* that failure to the caller.
C24_Witness ==
    \E w \in Workers : pc[w] = "done" /\ result[w].cause = "serialization_failure"

\* the steps that may follow step p
Succ(p) ==
    CASE p = "validate" -> {"begin", "done"}
      [] p = "begin" -> {"readSrc", "done"}
      [] p = "readSrc" -> {"readDst", "rollback"}
      [] p = "readDst" -> {"updSrc", "rollback"}
      [] p = "updSrc" -> {"updDst", "rollback"}
      [] p = "updDst" -> {"insert", "rollback"}
      [] p = "insert" -> {"commit", "rollback"}
      [] p = "commit" -> {"done"}
      [] p = "rollback" -> {"done"}
      [] OTHER -> {"validate"}

\* C25: the steps of one createTransfer follow the fixed order validate,
\* open scope, read source and check balance, read destination, update
\* source, update destination, record, commit, each followed by the next or
\* by the abort; both reads precede any write, the source balance is written
\* before the destination balance, and the record is inserted only after
\* both balance updates.
C25_FixedOrder ==
    [][\A w \in Workers :
          /\ StepOf(w) => pc'[w] \in Succ(pc[w])
          /\ wr'[w] # Empty => (sourceAccount[w] # <<>> /\ destAccount[w] # <<>>)
          /\ req[w].dst \in DOMAIN wr'[w] => req[w].src \in DOMAIN wr[w]
          /\ ins'[w] # <<>> => DOMAIN wr[w] = {req[w].src, req[w].dst}]_vars

\* C25 case: a call has made both reads and both writes, inserted its
\* record and stands before its commit.
C25_Witness ==
    \E w \in Workers :
       /\ pc[w] = "commit"
       /\ DOMAIN wr[w] = {req[w].src, req[w].dst}
       /\ Len(ins[w]) = 1

\* C26: inside the scope SourceAccountNotFound takes precedence over
\* InsufficientBalance, which takes precedence over
\* DestinationAccountNotFound: a missing source fails the call whatever the
\* amount and the destination; an insufficient balance fails it before the
\* destination is read, also when that destination does not exist.
C26_ErrorPrecedence ==
    [][\A w \in Workers :
          /\ (pc[w] = "readSrc" /\ StepOf(w) /\ NoDriverFailure(w)) =>
                /\ req[w].src \notin DOMAIN accounts =>
                      err'[w] = ErrSourceAccountNotFound
                /\ (/\ req[w].src \in DOMAIN accounts
                    /\ accounts[req[w].src] < req[w].amount) =>
                      /\ err'[w] = ErrInsufficientBalance
                      /\ pc'[w] = "rollback"
                      /\ destAccount'[w] = <<>>
          /\ err'[w] = ErrDestinationAccountNotFound =>
                (sourceAccount[w] # <<>> /\ sourceAccount[w][1] >= req[w].amount)]_vars

\* C26 case: a call that is overdrawn and names a destination that does not
\* exist has failed with InsufficientBalance.
C26_Witness ==
    \E w \in Workers :
       /\ pc[w] = "rollback"
       /\ err[w] = ErrInsufficientBalance
       /\ req[w].dst \notin DOMAIN accounts
       /\ destAccount[w] = <<>>

\* ----------------------------------- transfers in opposite directions
\* accounts 1 and 2 hold one store unit each; worker 1 transfers one or two
\* units from 1 to 2 and worker 2 from 2 to 1, so each scope updates first
\* the row the other updates last.
InitOpposite ==
    /\ accounts = (1 :> StoreUnit) @@ (2 :> StoreUnit)
    /\ opening = accounts
    /\ transactions = <<>>
    /\ pc = [w \in Workers |-> "idle"]
    /\ req = [w \in Workers |-> NoReq]
    /\ status = [w \in Workers |-> "pending"]
    /\ sourceAccount = [w \in Workers |-> <<>>]
    /\ destAccount = [w \in Workers |-> <<>>]
    /\ snap = [w \in Workers |-> Empty]
    /\ stale = [w \in Workers |-> {}]
    /\ wr = [w \in Workers |-> Empty]
    /\ ins = [w \in Workers |-> <<>>]
    /\ err = [w \in Workers |-> Nil]
    /\ result = [w \in Workers |-> Nil]
    /\ ret = NoRet
    /\ ncalls = 0

OppositeTransfer(w, amount) ==
    CreateTransaction(w, w, IF w = 1 THEN 2 ELSE 1, amount)

\* the steps the runtime and the store take for a call once it is made
CallStep(w) ==
    \/ ValidateRequest(w)
    \/ BeginTx(w)
    \/ ReadSource(w)
    \/ ReadDestination(w)
    \/ UpdateSource(w)
    \/ UpdateDestination(w)
    \/ Deadlock(w)
    \/ RecordTransaction(w)
    \/ Commit(w)
    \/ Rollback(w)

NextOpposite ==
    \/ \E w \in Workers, a \in {StoreUnit, 2 * StoreUnit} : OppositeTransfer(w, a)
    \/ \E w \in Workers : ValidateRequest(w)
    \/ \E w \in Workers : BeginTx(w)
    \/ \E w \in Workers : ReadSource(w)
    \/ \E w \in Workers : ReadDestination(w)
    \/ \E w \in Workers : UpdateSource(w)
    \/ \E w \in Workers : UpdateDestination(w)
    \/ \E w \in Workers : Deadlock(w)
    \/ \E w \in Workers : RecordTransaction(w)
    \/ \E w \in Workers : Commit(w)
    \/ \E w \in Workers : Rollback(w)

\* every goroutine keeps running and the store answers every call it can
\* answer: a call that can take a step eventually takes one
SpecOpposite ==
    InitOpposite /\ [][NextOpposite]_vars /\ \A w \in Workers : WF_vars(CallStep(w))

InCall(w) == pc[w] \notin {"idle", "done"}

\* C27: every createTransfer call eventually returns, committed or aborted,
\* in every interleaving, two transfers in opposite directions between the
\* same two accounts included: no calls wait on each other forever; and a
\* call that has returned takes no further step, only a new call starts.
C27_EveryCallReturns ==
    /\ \A w \in Workers : InCall(w) ~> (pc[w] = "done")
    /\ [][\A w \in Workers :
             (pc[w] = "done" /\ StepOf(w)) =>
                (pc'[w] = "validate" /\ ncalls' = ncalls + 1 /\ result'[w] = Nil)]_vars

\* C27 case: the two scopes each held the row the other waited for; the
\* store failed one of the updates, that call returned aborted and the
\* other returned committed.
C27_Witness ==
    /\ \A w \in Workers : pc[w] = "done"
    /\ \E w \in Workers : result[w].cause = "deadlock_detected"
    /\ \E w \in Workers : result[w] = Nil

\* --------------------------------------- transfers on disjoint accounts
\* accounts 1 and 3 hold one store unit, accounts 2 and 4 hold nothing;
\* worker 1 makes one transfer from 1 to 2 and worker 2 one from 3 to 4, of
\* one unit (covered) or two (overdrawn), while accounts are created and
\* read.
DisjointIds == 1..5
SourceOf(w) == 2 * w - 1
DestOf(w) == 2 * w

InitDisjoint ==
    /\ accounts = (1 :> StoreUnit) @@ (2 :> 0) @@ (3 :> StoreUnit) @@ (4 :> 0)
    /\ opening = accounts
    /\ transactions = <<>>
    /\ pc = [w \in Workers |-> "idle"]
    /\ req = [w \in Workers |-> NoReq]
    /\ status = [w \in Workers |-> "pending"]
    /\ sourceAccount = [w \in Workers |-> <<>>]
    /\ destAccount = [w \in Workers |-> <<>>]
    /\ snap = [w \in Workers |-> Empty]
    /\ stale = [w \in Workers |-> {}]
    /\ wr = [w \in Workers |-> Empty]
    /\ ins = [w \in Workers |-> <<>>]
    /\ err = [w \in Workers |-> Nil]
    /\ result = [w \in Workers |-> Nil]
    /\ ret = NoRet
    /\ ncalls = 0

DisjointTransfer(w, amount) ==
    /\ pc[w] = "idle"
    /\ CreateTransaction(w, SourceOf(w), DestOf(w), amount)

NextDisjoint ==
    \/ \E w \in Workers, a \in {StoreUnit, 2 * StoreUnit} : DisjointTransfer(w, a)
    \/ \E w \in Workers : ValidateRequest(w)
    \/ \E w \in Workers : BeginTx(w)
    \/ \E w \in Workers : ReadSource(w)
    \/ \E w \in Workers : ReadDestination(w)
    \/ \E w \in Workers : UpdateSource(w)
    \/ \E w \in Workers : UpdateDestination(w)
    \/ \E w \in Workers : RecordTransaction(w)
    \/ \E w \in Workers : Commit(w)
    \/ \E w \in Workers : Rollback(w)
    \/ \E id \in DisjointIds, b \in InitialBalances : CreateAccount(id, b)
    \/ \E id \in DisjointIds : GetAccount(id)
    \/ TakeReturn

SpecDisjoint == InitDisjoint /\ [][NextDisjoint]_vars

\* the same two transfers alone, with amounts of any scale: half a store
\* unit, one unit or two
NextDisjointFine ==
    \/ \E w \in Workers, a \in {2, StoreUnit, 2 * StoreUnit} : DisjointTransfer(w, a)
    \/ \E w \in Workers : ValidateRequest(w)
    \/ \E w \in Workers : BeginTx(w)
    \/ \E w \in Workers : ReadSource(w)
    \/ \E w \in Workers : ReadDestination(w)
    \/ \E w \in Workers : UpdateSource(w)
    \/ \E w \in Workers : UpdateDestination(w)
    \/ \E w \in Workers : RecordTransaction(w)
    \/ \E w \in Workers : Commit(w)
    \/ \E w \in Workers : Rollback(w)

SpecDisjointFine == InitDisjoint /\ [][NextDisjointFine]_vars

\* C28: two createTransfer calls on disjoint account sets commute: in every
\* interleaving each returns what it returns when run alone (it commits when
\* its source covers the amount and fails with InsufficientBalance when not)
\* and leaves its two accounts as it does alone, never touching the other
\* pair; every balance stays >= 0 and the sum of each pair is conserved.
C28_DisjointTransfersCommute ==
    [][\A w \in Workers :
          /\ (pc[w] \in {"commit", "rollback"} /\ pc'[w] = "done") =>
                LET S == req[w].src
                    D == req[w].dst
                    a == req[w].amount
                IN /\ IF a <= opening[S]
                      THEN /\ result'[w] = Nil
                           /\ accounts'[S] = opening[S] - a
                           /\ accounts'[D] = opening[D] + a
                      ELSE /\ result'[w] = ErrInsufficientBalance
                           /\ accounts'[S] = opening[S]
                           /\ accounts'[D] = opening[D]
                   /\ \A id \in DOMAIN accounts \ {S, D} : accounts'[id] = accounts[id]
          /\ \A id \in DOMAIN accounts' : accounts'[id] >= 0
          /\ accounts'[SourceOf(w)] + accounts'[DestOf(w)]
                = opening[SourceOf(w)] + opening[DestOf(w)]]_vars

C29_ExactArithmetic ==
    [][\A w \in Workers :
          Committed(w) =>
             /\ accounts'[req[w].src] = SourceNewBalance(w)
             /\ accounts'[req[w].dst] = DestNewBalance(w)
             /\ transactions'[Len(transactions')].amount = req[w].amount]_vars

\* C31: every step keeps the persisted transaction records as a prefix of
\* the records after it (none is modified or removed) and adds exactly one
\* record, naming the call's accounts, when it is the commit of a
\* createTransfer call, and none otherwise; so a call persists one record
\* when it commits and none when it fails, and the number of records is the
\* number of committed transfers.
C31_OneRecordPerCommit ==
    [][/\ Len(transactions') >= Len(transactions)
       /\ SubSeq(transactions', 1, Len(transactions)) = transactions
       /\ IF \E w \in Workers : Committed(w)
          THEN /\ Len(transactions') = Len(transactions) + 1
               /\ \E w \in Workers :
                     /\ Committed(w)
                     /\ transactions'[Len(transactions')].src = req[w].src
                     /\ transactions'[Len(transactions')].dst = req[w].dst
          ELSE Len(transactions') = Len(transactions)]_vars

\* C31 case: one call has committed and one has failed after its record was
\* inserted in its scope (the commit was refused); one record is persisted.
C31_Witness ==
    /\ pc[1] = "done"
    /\ result[1] = Nil
    /\ pc[2] = "done"
    /\ result[2].name = "error committing transaction"
    /\ Len(transactions) = 1

\* ------------------------------------------------- account identifiers
\* account calls whose accountID ranges over int64 values of either sign:
\* AccountID is an int64, account_id a BIGINT with no CHECK, and neither
\* accountService.CreateAccount nor the repository looks at its sign
RequestIds == {-1, 0, 1}

NextIdentifiers ==
    \/ \E id \in RequestIds, b \in InitialBalances : CreateAccount(id, b)
    \/ \E id \in RequestIds, b \in InitialBalances : CreateAccountFails(id, b)
    \/ \E id \in RequestIds : GetAccount(id)
    \/ TakeReturn

SpecIdentifiers == Init /\ [][NextIdentifiers]_vars

\* C32: after any sequence of createAccount calls every account in the
\* ledger has a positive identifier: no account with id <= 0 exists.
C32_IdsPositive == \A id \in DOMAIN accounts : id > 0

\* ------------------------------------------ listing an account's records
\* the row of transactions with generated id i, as the SELECT returns it
TransactionRow(i) ==
    [id |-> i, src |-> transactions[i].src, dst |-> transactions[i].dst,
     amount |-> transactions[i].amount, status |-> transactions[i].status]

\* the orders in which the store may return the rows S: ORDER BY created_at
\* DESC leaves rows of equal created_at (rows of one scope) in any order
RowOrders(S) ==
    {f \in [1..Cardinality(S) -> S] :
        \A a, b \in 1..Cardinality(S) : a # b => f[a] # f[b]}

\* a listing whose WHERE clause names the source column only
GetTransactionsBySourceOnly(accountID) ==
    /\ ret = NoRet
    /\ LET rows == {i \in 1..Len(transactions) : transactions[i].src = accountID}
       IN \E f \in RowOrders(rows) :
             ret' = [op |-> "getTransactionsByAccount", id |-> accountID, arg |-> 0,
                     err |-> Nil,
                     account |-> [k \in 1..Cardinality(rows) |-> TransactionRow(f[k])]]
    /\ UNCHANGED <<accounts, opening, transactions, txvars, ncalls>>

\* PostgresTransactionRepository.GetTransactionsByAccount: a SELECT on the
\* connection pool, which sees the committed rows only
GetTransactionsByAccount(accountID) ==
    /\ ret = NoRet
    /\ LET rows == {i \in 1..Len(transactions) :
                       \/ transactions[i].src = accountID
                       \/ transactions[i].dst = accountID}
       IN \E f \in RowOrders(rows) :
             ret' = [op |-> "getTransactionsByAccount", id |-> accountID, arg |-> 0,
                     err |-> Nil,
                     account |-> [k \in 1..Cardinality(rows) |-> TransactionRow(f[k])]]
    /\ UNCHANGED <<accounts, opening, transactions, txvars, ncalls>>

\* GetTransactionsByAccount when the query fails in the driver
GetTransactionsFails(accountID) ==
    /\ ret = NoRet
    /\ ret' = [op |-> "getTransactionsByAccount", id |-> accountID, arg |-> 0,
               err |-> Err("failed to get transactions", "io"), account |-> <<>>]
    /\ UNCHANGED <<accounts, opening, transactions, txvars, ncalls>>

\* accounts 1, 2 and 3 exist, account 4 does not; a caller records transfers
\* in a scope of its own and commits or rolls back, as
\* TestTransactionRepository_GetTransactionsByAccount does
ListingIds == 1..4
ListingInputs ==
    [src : 1..3, dst : 1..3, amount : {0, StoreUnit}, status : {"complete"}]

InitListing ==
    /\ accounts = (1 :> StoreUnit) @@ (2 :> StoreUnit) @@ (3 :> StoreUnit)
    /\ opening = accounts
    /\ transactions = <<>>
    /\ pc = [w \in Workers |-> "idle"]
    /\ req = [w \in Workers |-> NoReq]
    /\ status = [w \in Workers |-> "pending"]
    /\ sourceAccount = [w \in Workers |-> <<>>]
    /\ destAccount = [w \in Workers |-> <<>>]
    /\ snap = [w \in Workers |-> Empty]
    /\ stale = [w \in Workers |-> {}]
    /\ wr = [w \in Workers |-> Empty]
    /\ ins = [w \in Workers |-> <<>>]
    /\ err = [w \in Workers |-> Nil]
    /\ result = [w \in Workers |-> Nil]
    /\ ret = NoRet
    /\ ncalls = 0

NextListing ==
    \/ \E w \in Workers : OpenScope(w)
    \/ \E w \in Workers, t \in ListingInputs : ScopedRecord(w, t)
    \/ \E w \in Workers : CommitScope(w)
    \/ \E w \in Workers : RollbackScope(w)
    \/ \E id \in ListingIds : GetTransactionsByAccount(id)
    \/ \E id \in ListingIds : GetTransactionsFails(id)
    \/ TakeReturn

SpecListing == InitListing /\ [][NextListing]_vars

\* C33: unless the query fails in the driver, getTransactionsByAccount(id)
\* returns without error exactly the committed records whose source or
\* destination is id, each once, and the empty list when there is none,
\* also for an id no account has; it changes no account, no record and no
\* scope.
C33_ListsCommittedRecords ==
    [][(Returns("getTransactionsByAccount") /\ ret'.err.cause # "io") =>
          LET named == {i \in 1..Len(transactions) :
                           ret'.id \in {transactions[i].src, transactions[i].dst}}
              got == ret'.account
          IN /\ ret'.err = Nil
             /\ Len(got) = Cardinality(named)
             /\ {got[k].id : k \in 1..Len(got)} = named
             /\ \A k \in 1..Len(got) :
                   /\ got[k].src = transactions[got[k].id].src
                   /\ got[k].dst = transactions[got[k].id].dst
                   /\ got[k].amount = transactions[got[k].id].amount
             /\ named = {} => got = <<>>
             /\ accounts' = accounts
             /\ transactions' = transactions
             /\ UNCHANGED txvars]_vars

\* C33 case: one record between accounts 1 and 2 is committed, a record
\* naming account 3 is inserted in a scope still open, and the listing of
\* account 3 has returned the empty list without error.
C33_Witness ==
    /\ ret.op = "getTransactionsByAccount"
    /\ ret.id = 3
    /\ ret.err = Nil
    /\ ret.account = <<>>
    /\ Len(transactions) = 1
    /\ 3 \notin {transactions[1].src, transactions[1].dst}
    /\ \E w \in Workers : ins[w] # <<>> /\ ins[w][1].src = 3

\* -------------------------------------------- exit paths of withTransaction
\* the value a call ends with when a panic leaves it
Panicked == Err("panic", "panic")

\* a deferred function that recovers and re-raises the panic without rolling
\* the scope back: the call ends with the scope still open
PanicSkipsRollback(w) ==
    /\ ret = NoRet
    /\ InScopedCall(w)
    /\ Return(w, Panicked)
    /\ UNCHANGED <<accounts, opening, transactions, snap, stale, wr, ins, err, ret, ncalls>>

\* withTransaction: fn panics; the deferred function recovers, calls
\* tx.Rollback() and re-raises the panic (the Rollback step ends the call
\* with it)
Panic(w) ==
    /\ ret = NoRet
    /\ InScopedCall(w)
    /\ Fail(w, Panicked)
    /\ UNCHANGED <<accounts, opening, transactions, req, status, sourceAccount, destAccount, wr,
                   ins, result, ret, ncalls>>

\* a store call of the scope fails in the driver; the error of the deferred
\* tx.Rollback() is dropped, so after a panic a failing one changes nothing
DriverFailure(w) == err[w] # Panicked /\ StoreFailure(w)

\* transfers between accounts 1 and 2, one store unit each, in which any
\* store call may fail in the driver and fn may panic
NextScopes ==
    \/ \E w \in Workers, s \in AccountIds, d \in AccountIds, a \in {StoreUnit, 2 * StoreUnit} :
          CreateTransaction(w, s, d, a)
    \/ \E w \in Workers : ValidateRequest(w)
    \/ \E w \in Workers : BeginTx(w)
    \/ \E w \in Workers : ReadSource(w)
    \/ \E w \in Workers : ReadDestination(w)
    \/ \E w \in Workers : UpdateSource(w)
    \/ \E w \in Workers : UpdateDestination(w)
    \/ \E w \in Workers : Deadlock(w)
    \/ \E w \in Workers : RecordTransaction(w)
    \/ \E w \in Workers : Commit(w)
    \/ \E w \in Workers : Rollback(w)
    \/ \E w \in Workers : DriverFailure(w)
    \/ \E w \in Workers : Panic(w)

SpecScopes == InitOpposite /\ [][NextScopes]_vars

\* C34: every scope withTransaction opens is closed exactly once on every
\* exit path. A commit is attempted only after fn returned no error; an
\* error or a panic of fn leads to the rollback and to nothing else; the
\* call leaves the scope only from the commit or the rollback, in one step,
\* and then nothing of the scope is left open (no snapshot, no pending write
\* or insert); a rolled back call changes no committed row and ends with an
\* error, a panicked one with the panic re-raised; committed rows change
\* only in the commit of a fn that returned no error.
C34_ScopeClosedOnce ==
    [][/\ \A w \in Workers :
             /\ (pc'[w] = "commit" /\ pc[w] # "commit") =>
                   (pc[w] = "insert" /\ err'[w] = Nil)
             /\ (err[w] = Nil /\ err'[w] # Nil) =>
                   (InScopedCall(w) /\ pc'[w] = "rollback")
             /\ (pc[w] \in {"commit", "rollback"} /\ StepOf(w)) => pc'[w] = "done"
             /\ (pc[w] = "rollback" /\ StepOf(w)) =>
                   /\ accounts' = accounts
                   /\ transactions' = transactions
                   /\ result'[w] # Nil
                   /\ err[w] = Panicked => result'[w] = Panicked
             /\ (ScopeOpen(w) /\ ~ScopeOpen(w)') =>
                   /\ pc[w] \in {"commit", "rollback"}
                   /\ pc'[w] = "done"
                   /\ snap'[w] = Empty
                   /\ wr'[w] = Empty
                   /\ ins'[w] = <<>>
             /\ ~ScopeOpen(w)' => (wr'[w] = Empty /\ ins'[w] = <<>>)
       /\ (accounts' # accounts \/ transactions' # transactions) =>
             \E w \in Workers : pc[w] = "commit" /\ err[w] = Nil /\ result'[w] = Nil]_vars

\* C34 case: one call has committed its scope; the other panicked in fn
\* after its balance updates, was rolled back and ended with the panic.
C34_Witness ==
    /\ pc[1] = "done"
    /\ result[1] = Nil
    /\ Len(transactions) = 1
    /\ pc[2] = "done"
    /\ result[2] = Panicked
    /\ wr[2] = Empty
    /\ accounts[1] + accounts[2] = 2 * StoreUnit

\* sum of f over the ids in S
RECURSIVE SumOver(_, _)
SumOver(f, S) ==
    IF S = {} THEN 0
    ELSE LET id == CHOOSE x \in S : TRUE
         IN f[id] + SumOver(f, S \ {id})

\* C35: in every committed state, after any interleaving of createAccount
\* and createTransfer calls, the sum of all account balances equals the sum
\* of the initial balances of the accounts created: transfers neither
\* create nor destroy money.
C35_MoneyConserved ==
    SumOver(accounts, DOMAIN accounts) = SumOver(opening, DOMAIN opening)

\* ------------------------------- requests naming one account twice
\* every createTransfer request and every record handed to
\* CreateTransactionWithTx names the same account as source and destination,
\* with an amount of either sign
SameAccountTransfer(w, id, amount) == CreateTransaction(w, id, id, amount)

SameAccountRecord(w, id, amount) ==
    ScopedRecord(w, [src |-> id, dst |-> id, amount |-> amount, status |-> "pending"])

NextSameAccount ==
    \/ \E w \in Workers, id \in RepoIds, a \in Amounts : SameAccountTransfer(w, id, a)
    \/ \E w \in Workers : ValidateRequest(w)
    \/ \E w \in Workers : OpenScope(w)
    \/ \E w \in Workers, id \in RepoIds, a \in Amounts : SameAccountRecord(w, id, a)
    \/ \E w \in Workers : CommitScope(w)
    \/ \E w \in Workers : RollbackScope(w)

SpecSameAccount == InitRepository /\ [][NextSameAccount]_vars

\* C36: a transfer request that breaks both rules at once, amount <= 0 and
\* source = destination, is answered with InvalidAmount, not SameAccount, by
\* createTransfer and by recordTransfer alike, because the amount is checked
\* first; with a positive amount the same request is answered with
\* SameAccount. Neither call opens a scope or inserts a record.
C36_AmountCheckedFirst ==
    [][\A w \in Workers :
          /\ (pc[w] = "validate" /\ StepOf(w) /\ req[w].src = req[w].dst) =>
                /\ pc'[w] = "done"
                /\ result'[w] = IF req[w].amount <= 0 THEN ErrInvalidAmount
                                ELSE ErrSameAccount
          /\ \A id \in RepoIds, a \in Amounts :
                SameAccountRecord(w, id, a) =>
                   /\ err'[w] = IF a <= 0 THEN ErrInvalidAmount ELSE ErrSameAccount
                   /\ ins' = ins
                   /\ pc'[w] = "open"]_vars

\* C36 case: a record with source = destination and amount <= 0 was refused
\* with InvalidAmount in a scope still open, and a createTransfer with
\* source = destination and amount <= 0 has returned InvalidAmount.
C36_Witness ==
    /\ pc[1] = "open"
    /\ err[1] = ErrInvalidAmount
    /\ ins[1] = <<>>
    /\ pc[2] = "done"
    /\ result[2] = ErrInvalidAmount
    /\ transactions = <<>>

\* ------------------------------------------ concurrent account creation
\* each worker makes one createAccount call on an empty ledger; the call is
\* the service's sign check followed by the repository's INSERT, one
\* statement the store runs atomically (a second INSERT of the same key waits
\* for the first and then fails with unique_violation). req[w] holds the
\* call's arguments: src = dst = accountID, amount = initialBalance.
CreatorBalances == {0 - StoreUnit, 0, 2, StoreUnit}

CallCreateAccount(w, id, initialBalance) ==
    /\ ret = NoRet
    /\ pc[w] = "idle"
    /\ req' = [req EXCEPT ![w] = [src |-> id, dst |-> id, amount |-> initialBalance]]
    /\ pc' = [pc EXCEPT ![w] = "createCheck"]
    /\ UNCHANGED <<accounts, opening, transactions, status, sourceAccount, destAccount, snap,
                   stale, wr, ins, err, result, ret, ncalls>>

\* accountService.CreateAccount: req.InitialBalance.IsNegative()
CreateAccountCheck(w) ==
    /\ ret = NoRet
    /\ pc[w] = "createCheck"
    /\ IF IsNegative(req[w].amount)
       THEN /\ result' = [result EXCEPT ![w] = ErrInvalidAmount]
            /\ pc' = [pc EXCEPT ![w] = "done"]
       ELSE /\ pc' = [pc EXCEPT ![w] = "createInsert"]
            /\ result' = result
    /\ UNCHANGED <<accounts, opening, transactions, req, status, sourceAccount, destAccount,
                   snap, stale, wr, ins, err, ret, ncalls>>

\* accountService.CreateAccount: s.repo.CreateAccount and the return
CreateAccountInsert(w) ==
    /\ ret = NoRet
    /\ pc[w] = "createInsert"
    /\ LET id == req[w].src
           e == RepoCreateAccount(id, req[w].amount)
       IN /\ accounts' = IF e = Nil THEN accounts @@ (id :> RoundStore(req[w].amount))
                         ELSE accounts
          /\ opening' = IF e = Nil THEN opening @@ (id :> RoundStore(req[w].amount))
                        ELSE opening
          /\ result' = [result EXCEPT ![w] = e]
    /\ pc' = [pc EXCEPT ![w] = "done"]
    /\ UNCHANGED <<transactions, req, status, sourceAccount, destAccount, snap, stale, wr, ins,
                   err, ret, ncalls>>

NextCreators ==
    \/ \E w \in Workers, id \in AccountIds, b \in CreatorBalances : CallCreateAccount(w, id, b)
    \/ \E w \in Workers : CreateAccountCheck(w)
    \/ \E w \in Workers : CreateAccountInsert(w)

SpecCreators == Init /\ [][NextCreators]_vars

\* C37: when the createAccount calls of both workers name the same unused id
\* with non-negative balances and run concurrently, exactly one succeeds and
\* the other returns AccountAlreadyExists, and the account's balance is the
\* initial balance of the call that succeeded.
C37_OneCreatorWins ==
    (/\ \A w \in Workers : pc[w] = "done"
     /\ req[1].src = req[2].src
     /\ \A w \in Workers : req[w].amount >= 0) =>
       \E w \in Workers :
          /\ result[w] = Nil
          /\ \A o \in Workers \ {w} : result[o] = ErrAccountAlreadyExists
          /\ accounts[req[w].src] = req[w].amount

\* ------------------------------------------- the in-memory Account value
\* a debit that subtracts without looking at the balance
DebitUnchecked(balance, amount) == [balance |-> balance - amount, err |-> Nil]

\* Account.Debit: the balance it leaves and the error it returns
Debit(balance, amount) ==
    IF ~HasSufficientBalance(balance, amount)
    THEN [balance |-> balance, err |-> ErrInsufficientBalance]
    ELSE [balance |-> balance - amount, err |-> Nil]

\* Account.Credit: the balance it leaves
Credit(balance, amount) == balance + amount

\* each worker holds an Account value in sourceAccount[w] and calls Debit
\* and Credit on it with amounts of either sign; err[w] is what the last
\* call returned and req[w].amount its argument
MethodBalances == {0 - StoreUnit, 0, 1, StoreUnit}

InitMethods ==
    /\ accounts = Empty
    /\ opening = Empty
    /\ transactions = <<>>
    /\ pc = [w \in Workers |-> "idle"]
    /\ req = [w \in Workers |-> NoReq]
    /\ status = [w \in Workers |-> "pending"]
    /\ sourceAccount \in [Workers -> {<<b>> : b \in MethodBalances}]
    /\ destAccount = [w \in Workers |-> <<>>]
    /\ snap = [w \in Workers |-> Empty]
    /\ stale = [w \in Workers |-> {}]
    /\ wr = [w \in Workers |-> Empty]
    /\ ins = [w \in Workers |-> <<>>]
    /\ err = [w \in Workers |-> Nil]
    /\ result = [w \in Workers |-> Nil]
    /\ ret = NoRet
    /\ ncalls = 0

DebitAccount(w, amount) ==
    /\ ncalls < MaxCalls
    /\ ncalls' = ncalls + 1
    /\ sourceAccount' =
          [sourceAccount EXCEPT ![w] = <<Debit(sourceAccount[w][1], amount).balance>>]
    /\ err' = [err EXCEPT ![w] = Debit(sourceAccount[w][1], amount).err]
    /\ req' = [req EXCEPT ![w] = [src |-> 0, dst |-> 0, amount |-> amount]]
    /\ pc' = [pc EXCEPT ![w] = "debited"]
    /\ UNCHANGED <<accounts, opening, transactions, status, destAccount, snap, stale, wr, ins,
                   result, ret>>

CreditAccount(w, amount) ==
    /\ ncalls < MaxCalls
    /\ ncalls' = ncalls + 1
    /\ sourceAccount' =
          [sourceAccount EXCEPT ![w] = <<Credit(sourceAccount[w][1], amount)>>]
    /\ err' = [err EXCEPT ![w] = Nil]
    /\ req' = [req EXCEPT ![w] = [src |-> 0, dst |-> 0, amount |-> amount]]
    /\ pc' = [pc EXCEPT ![w] = "credited"]
    /\ UNCHANGED <<accounts, opening, transactions, status, destAccount, snap, stale, wr, ins,
                   result, ret>>

NextMethods ==
    \/ \E w \in Workers, a \in Amounts : DebitAccount(w, a)
    \/ \E w \in Workers, a \in Amounts : CreditAccount(w, a)

SpecMethods == InitMethods /\ [][NextMethods]_vars

\* C38: Account.Debit(amount) returns InsufficientBalance and leaves the
\* in-memory balance unchanged exactly when amount > balance, and otherwise
\* subtracts amount and returns no error; Account.Credit(amount) adds
\* amount; and from any balance >= 0 reached, for any amount with
\* 0 <= amount <= balance, Debit followed by Credit of that amount gives
\* the balance back, with a balance >= 0 after each of the two.
C38_DebitCredit ==
    [][\A w \in Workers :
          LET b == sourceAccount[w][1]
              after == sourceAccount'[w][1]
          IN /\ \A a \in Amounts :
                   /\ DebitAccount(w, a) =>
                         /\ (err'[w] = ErrInsufficientBalance) <=> (a > b)
                         /\ a > b => after = b
                         /\ a <= b => (after = b - a /\ err'[w] = Nil)
                   /\ CreditAccount(w, a) => after = b + a
             /\ \A a \in Amounts :
                   (after >= 0 /\ 0 <= a /\ a <= after) =>
                      /\ Debit(after, a).err = Nil
                      /\ Debit(after, a).balance >= 0
                      /\ Credit(Debit(after, a).balance, a) = after
                      /\ Credit(Debit(after, a).balance, a) >= 0]_vars

\* C38 case: worker 1's Debit of more than its balance was refused and left
\* the balance as it was; worker 2's Account has been credited.
C38_Witness ==
    /\ pc[1] = "debited"
    /\ err[1] = ErrInsufficientBalance
    /\ req[1].amount > sourceAccount[1][1]
    /\ sourceAccount[1][1] \in MethodBalances
    /\ pc[2] = "credited"
    /\ sourceAccount[2][1] > 0

====
